---- MODULE Spec2Model ----
(***************************************************************************)
(* Orchestration and merge engine of the deep-research backend.            *)
(*                                                                         *)
(*  - backend/main.py: the HTTP handlers start_research and the websocket  *)
(*    registry with its notifier send_websocket_update;                    *)
(*  - backend/services/research_orchestrator.py: ResearchOrchestrator,     *)
(*    one asyncio task per requested provider, joined by asyncio.gather;   *)
(*  - backend/services/report_merger.py: ReportMerger.                     *)
(*                                                                         *)
(* asyncio is cooperative: a coroutine runs without interruption from one  *)
(* await to the next.  Every action below is the completion of one awaited *)
(* operation followed by the code up to the next await.                    *)
(***************************************************************************)
EXTENDS Integers, Sequences, FiniteSets, TLC

(* ---------------------------------------------------------------------- *)
(* Bounds of the model                                                     *)
(* ---------------------------------------------------------------------- *)
MaxProviders == 3
\* lines of text in the reports given to one merge_reports call
MaxTotalLines == 4
\* sections in a group given to merge_similar_content
\* the most lines of a content given to parse_report_sections on its own
MaxParseLines == 4
\* the most provider reports of a session the merge endpoint is asked about
MaxStoredRows == 2
MaxGroup == 2
\* the words of a title given to normalize_title
MaxTitleWords == 3

(* ---------------------------------------------------------------------- *)
(* models.py                                                               *)
(* ---------------------------------------------------------------------- *)
PENDING == "pending"
IN_PROGRESS == "in_progress"
COMPLETED == "completed"
FAILED == "failed"
MERGED == "merged"

ResearchStatus == {PENDING, IN_PROGRESS, COMPLETED, FAILED, MERGED}

OPENAI == "openai"
ANTHROPIC == "anthropic"
XAI == "xai"

Provider == {OPENAI, ANTHROPIC, XAI}

\* Python's None
None == "None"
\* None in the place of a str.  A Python str is a sequence of tokens: one
\* character of the input alphabet, or one fixed piece of text of the source.
PyNone == <<None>>

(* ---------------------------------------------------------------------- *)
(* research_orchestrator.py                                                *)
(* ---------------------------------------------------------------------- *)
DEFAULT_MODELS ==
    [p \in Provider |->
        CASE p = OPENAI -> "o3-deep-research-2025-06-26"
          [] p = ANTHROPIC -> "claude-sonnet-4-5-20250929"
          [] p = XAI -> "grok-4-0709"]

\* provider_settings values a request can carry: none (None and {} are both
\* falsy at line 60), an entry with a selected model, an entry without one
SettingsChoices ==
    { [p \in {} |-> [model |-> None]],
      [p \in {OPENAI} |-> [model |-> "gpt-5"]],
      [p \in {XAI} |-> [model |-> None]] }

\* lines 57-65: the model start_research resolves for a provider
ResolveModel(p, provider_settings) ==
    IF p \in DOMAIN provider_settings /\ provider_settings[p].model # None
    THEN provider_settings[p].model
    ELSE DEFAULT_MODELS[p]

\* The report text the external generation call of a provider returns
ReportText ==
    [p \in Provider |->
        CASE p = OPENAI -> <<"#", "#", " ", "M", "o", "\n", "x">>
          [] p = ANTHROPIC -> <<"#", " ", "a", " ", "m", "o", "\n", "y">>
          [] p = XAI -> <<"#", "#", " ", "X", "\n", "x">>]
\* the auxiliary reasoning text a generation call returns
ThinkingText == <<"thinking text">>
\* What the generation call can return (lines 162-171): a result without
\* content, for which report_content is "" and report_thinking None, or a
\* report text.  Only the Anthropic provider returns a thinking text beside
\* it (anthropic_provider.py 87-102); the OpenAI provider returns a plain
\* str and the xAI provider a dict whose thinking is None.
GenResults(p) ==
    { [content |-> <<>>, thinking |-> PyNone],
      [content |-> ReportText[p], thinking |-> PyNone] }
    \cup (IF p = ANTHROPIC
          THEN {[content |-> ReportText[p], thinking |-> ThinkingText]}
          ELSE {})
\* Messages of the exceptions the generation call can raise
GenErrors == {"timeout"}

KeyErrorMsg == "KeyError"
MultipleResultsMsg == "MultipleResultsFound"
NotFoundMsg == "Provider report record not found"

\* progress values in tenths: 0.1, 0.3, 0.8, 1.0
StageProgress ==
    [s \in {"starting", "in_progress", "processing", "completed", "failed"} |->
        CASE s = "starting" -> 1
          [] s = "in_progress" -> 3
          [] s = "processing" -> 8
          [] s = "completed" -> 10
          [] s = "failed" -> 10]

VARIABLES
    providers,      \* the providers list of the request
    rows,           \* provider_reports table: row id -> ProviderReport
    sessStatus,     \* research_sessions.status of the session ("none": no row)
    opc,            \* where start_research (the orchestrator coroutine) is
    finalStatus,    \* final_status of start_research
    task,           \* the provider tasks, by index in the providers list
    wsManager,      \* session_id in websocket_manager
    master_reports, \* master_reports table: the rows of the session (the
                    \* report itself is merge_out when the merger returns)
    given_reports,  \* merge_reports: the provider reports it is given
    merge_pc,       \* merge_reports: "input" before the call, "done" after
    merge_provider, \* what the merge provider of the call does
    merge_out,      \* merge_reports: its result and intermediate values
    given_sections, \* merge_similar_content: the group it is given
    reconcile_out,  \* merge_similar_content: its result
    parse_in,       \* parse_report_sections: the content it is given
    parse_pc,       \* "input" before the call, "parsed", then "reparsed"
    parse_out,      \* parse_report_sections: the sections it returned
    reparse,        \* the sections returned for one section's own text
    titles,         \* normalize_title: the two titles it is given in turn
    title_pc,       \* "input" before the two calls, "normalized" after
    title_keys      \* normalize_title: the keys it returned for them

orchVars == <<providers, rows, sessStatus, opc, finalStatus, task, wsManager,
              master_reports>>
mergeVars == <<given_reports, merge_pc, merge_provider, merge_out>>
reconcileVars == <<given_sections, reconcile_out>>
titleVars == <<titles, title_pc, title_keys>>
parseVars == <<parse_in, parse_pc, parse_out, reparse, titleVars>>

vars == <<providers, rows, sessStatus, opc, finalStatus, task, wsManager,
          master_reports, given_reports, merge_pc, merge_provider, merge_out,
          given_sections, reconcile_out, parse_in, parse_pc, parse_out,
          reparse, titles, title_pc, title_keys>>

Tasks == DOMAIN task

(* ---------------------------------------------------------------------- *)
(* Values                                                                  *)
(* ---------------------------------------------------------------------- *)
NoResult == [kind |-> "none", status |-> None, error |-> None]
\* the dict a task returns (lines 134-138, 202-206, 223-227)
DictResult(status, error) == [kind |-> "dict", status |-> status, error |-> error]
\* the exception asyncio.gather collects for a task that raised
ExcResult(msg) == [kind |-> "exc", status |-> None, error |-> msg]

NoGen == [kind |-> "none", value |-> None]

\* main.py 108-110: ProviderReport(session_id, provider, status=PENDING)
NewRow(p) ==
    [provider |-> p, status |-> PENDING, content |-> PyNone,
     thinking |-> PyNone, error_message |-> None]

NewTask ==
    [pc |-> "not_created", stage |-> None, report_content |-> PyNone,
     report_thinking |-> PyNone, e |-> None, result |-> NoResult,
     gen |-> NoGen, events |-> <<>>]

\* position of a provider in the enum (models.py 19-22)
ProviderOrd ==
    [p \in Provider |->
        CASE p = OPENAI -> 1 [] p = ANTHROPIC -> 2 [] p = XAI -> 3]

\* The request lists of at most MaxProviders providers; a provider may be
\* named more than once (ResearchRequest.providers is a plain List[Provider]).
\* Tasks are identified by their index and run in any order, so a list stands
\* for all its permutations: only the lists in enum order are enumerated.
RequestLists ==
    UNION {{req \in [1..n -> Provider] :
                \A i \in 1..n, j \in 1..n :
                    i < j => ProviderOrd[req[i]] <= ProviderOrd[req[j]]} :
           n \in 0..MaxProviders}

NoDuplicates(req) ==
    \A i \in DOMAIN req, j \in DOMAIN req : i # j => req[i] # req[j]

\* rows of the session that the select of lines 126-131 matches for task t
Matching(t) == {i \in DOMAIN rows : rows[i].provider = providers[t]}
\* the single row the task owns once scalar_one_or_none returned it
RowOf(t) == CHOOSE i \in Matching(t) : TRUE

(* ---------------------------------------------------------------------- *)
(* run_provider_research: continuations of a notifier call                 *)
(* ---------------------------------------------------------------------- *)
\* the code that follows send_websocket_update(stage) when it returns, up to
\* the next await
AfterSend(tk, stage) ==
    LET back == [tk EXCEPT !.stage = None]
    IN  CASE stage = "starting" -> [back EXCEPT !.pc = "w_select"]
          [] stage = "in_progress" -> [back EXCEPT !.pc = "w_generate"]
          [] stage = "processing" -> [back EXCEPT !.pc = "w_commit_completed"]
          [] stage = "completed" ->
                [back EXCEPT !.pc = "done",
                             !.result = DictResult(COMPLETED, None)]
          [] stage = "failed" ->
                [back EXCEPT !.pc = "done",
                             !.result = DictResult(FAILED, tk.e)]

\* the code that follows when send_websocket_update(stage) raises msg: inside
\* the try block (lines 140-206) the handler of line 208 takes it; outside
\* (line 116, and line 215 inside the handler) the task raises
SendRaised(tk, stage, msg) ==
    IF stage \in {"in_progress", "processing", "completed"}
    THEN [tk EXCEPT !.pc = "w_commit_failed", !.e = msg, !.stage = None]
    ELSE [tk EXCEPT !.pc = "done", !.result = ExcResult(msg), !.stage = None]

\* lines 189-193: the first 500 characters and "..." for a longer content
ContentPreview(report_content) ==
    IF Len(report_content) > 500
    THEN SubSeq(report_content, 1, 500) \o <<"...">>
    ELSE report_content

\* lines 229-249 with main.py 261-264: the event is handed to the notifier;
\* with a registered websocket the task then awaits send_json
SendWebsocketUpdate(tk, stage, registered) ==
    LET ev == [status |-> stage, progress |-> StageProgress[stage],
               content |-> IF stage = "completed"
                           THEN ContentPreview(tk.report_content)
                           ELSE PyNone,
               error |-> IF stage = "failed" THEN tk.e ELSE None]
        emitted == [tk EXCEPT !.events = Append(tk.events, ev)]
    IN  IF registered
        THEN [emitted EXCEPT !.pc = "w_send", !.stage = stage]
        ELSE AfterSend(emitted, stage)

(* ---------------------------------------------------------------------- *)
(* Initial state: nothing requested yet                                    *)
(* ---------------------------------------------------------------------- *)
\* no merge has been asked for
MergerIdle ==
    /\ given_reports = <<>>
    /\ merge_pc = "idle"
    /\ merge_provider = None
    /\ merge_out = <<>>
    /\ given_sections = <<>>
    /\ reconcile_out = <<>>

\* nothing is being parsed on its own
TitlesIdle ==
    /\ titles = <<>>
    /\ title_pc = "idle"
    /\ title_keys = <<>>

ParserIdle ==
    /\ parse_in = <<>>
    /\ parse_pc = "idle"
    /\ parse_out = <<>>
    /\ reparse = <<>>
    /\ TitlesIdle

OrchestratorIdle ==
    /\ providers = <<>>
    /\ rows = <<>>
    /\ sessStatus = "none"
    /\ opc = "idle"
    /\ finalStatus = None
    /\ task = <<>>
    /\ wsManager = FALSE
    /\ master_reports = <<>>

Init == OrchestratorIdle /\ MergerIdle /\ ParserIdle

(* ---------------------------------------------------------------------- *)
(* main.py: POST /api/research/start and the websocket registry            *)
(* ---------------------------------------------------------------------- *)
\* main.py 98-126: the session row and one row per element of
\* request.providers are committed, then the orchestrator coroutine is
\* scheduled
ApiStartResearch ==
    /\ opc = "idle"
    /\ \E req \in RequestLists :
        /\ providers' = req
        /\ rows' = [i \in DOMAIN req |-> NewRow(req[i])]
        /\ task' = [i \in DOMAIN req |-> NewTask]
    /\ sessStatus' = PENDING
    /\ opc' = "w_commit_in_progress"
    /\ UNCHANGED <<finalStatus, wsManager>>
    /\ UNCHANGED <<master_reports, mergeVars, reconcileVars, parseVars>>

\* ResearchOrchestrator.start_research called by a caller other than the
\* handler above (it is the orchestrator's entry point), with each provider
\* named once: the store holds the session and rows for only some of the
\* providers it is given
DirectStartResearch ==
    /\ opc = "idle"
    /\ \E req \in {r \in RequestLists : NoDuplicates(r)} :
        \E have \in (SUBSET DOMAIN req) \ {DOMAIN req} :
            /\ providers' = req
            /\ rows' = [i \in have |-> NewRow(req[i])]
            /\ task' = [i \in DOMAIN req |-> NewTask]
    /\ sessStatus' = PENDING
    /\ opc' = "w_commit_in_progress"
    /\ UNCHANGED <<finalStatus, wsManager>>
    /\ UNCHANGED <<master_reports, mergeVars, reconcileVars, parseVars>>

\* main.py 247-251: a client connects to /ws/research/{session_id}
WsConnect ==
    /\ ~wsManager
    /\ wsManager' = TRUE
    /\ UNCHANGED <<providers, rows, sessStatus, opc,
                   finalStatus, task>>
    /\ UNCHANGED <<master_reports, mergeVars, reconcileVars, parseVars>>

\* main.py 253-258: receive_text raises WebSocketDisconnect and the endpoint
\* removes the registration
WsDisconnect ==
    /\ wsManager
    /\ wsManager' = FALSE
    /\ UNCHANGED <<providers, rows, sessStatus, opc,
                   finalStatus, task>>
    /\ UNCHANGED <<master_reports, mergeVars, reconcileVars, parseVars>>

(* ---------------------------------------------------------------------- *)
(* ResearchOrchestrator.start_research                                     *)
(* ---------------------------------------------------------------------- *)
\* lines 55-79: the indices of the providers list a task is created for
ToLaunch(provider_settings) ==
    {i \in DOMAIN providers :
        ResolveModel(providers[i], provider_settings) # None}

\* the tasks start_research created
Launched == {i \in DOMAIN task : task[i].pc # "not_created"}

\* lines 45-82: the IN_PROGRESS commit completes, the loop creates one task
\* per provider with a model, and start_research awaits gather
StartTasks ==
    /\ opc = "w_commit_in_progress"
    /\ sessStatus' = IN_PROGRESS
    /\ \E provider_settings \in SettingsChoices :
        task' = [i \in DOMAIN task |->
                   IF i \in ToLaunch(provider_settings)
                   THEN [task[i] EXCEPT !.pc = "created"]
                   ELSE task[i]]
    /\ opc' = "w_gather"
    /\ UNCHANGED <<providers, rows, finalStatus, wsManager>>
    /\ UNCHANGED <<master_reports, mergeVars, reconcileVars, parseVars>>

\* lines 85-89 without the isinstance test: a collected exception is skipped
AllSuccess_SkipExceptions(results) ==
    \A i \in DOMAIN results :
        results[i].kind = "dict" => results[i].status = COMPLETED

\* lines 85-89
AllSuccess(results) ==
    \A i \in DOMAIN results :
        results[i].kind = "dict" /\ results[i].status = COMPLETED

\* lines 92-94
FinalStatus(results) == IF AllSuccess(results) THEN COMPLETED ELSE FAILED

\* line 82 without return_exceptions: the first exception of a task leaves
\* gather at once
GatherReturns_AtFirstException ==
    \/ \A i \in Launched : task[i].pc = "done"
    \/ \E i \in Launched : task[i].pc = "done" /\ task[i].result.kind = "exc"

\* line 82 as a wait for the first task to finish
GatherReturns_FirstCompleted ==
    \E i \in Launched : task[i].pc = "done"

\* line 82, gather(*tasks, return_exceptions=True): returns when every task
\* has returned or raised
GatherReturns == \A i \in Launched : task[i].pc = "done"

\* lines 82-95: gather returns once every task has returned or raised
Gather ==
    /\ opc = "w_gather"
    /\ GatherReturns
    /\ finalStatus' = FinalStatus([i \in Launched |-> task[i].result])
    /\ opc' = "w_commit_final"
    /\ UNCHANGED <<providers, rows, sessStatus, task, wsManager>>
    /\ UNCHANGED <<master_reports, mergeVars, reconcileVars, parseVars>>

\* lines 95-103: the final status is committed and start_research returns
CommitFinal ==
    /\ opc = "w_commit_final"
    /\ sessStatus' = finalStatus
    /\ opc' = "done"
    /\ UNCHANGED <<providers, rows, finalStatus, task, wsManager>>
    /\ UNCHANGED <<master_reports, mergeVars, reconcileVars, parseVars>>

(* ---------------------------------------------------------------------- *)
(* ResearchOrchestrator.run_provider_research, one task per index t        *)
(* ---------------------------------------------------------------------- *)
TaskFrame ==
    <<providers, sessStatus, opc, finalStatus, master_reports, mergeVars,
      reconcileVars, parseVars>>

SetTask(t, tk) == task' = [task EXCEPT ![t] = tk]

\* lines 116-121: the task starts running and sends "starting"
TaskStart(t) ==
    /\ task[t].pc = "created"
    /\ SetTask(t, SendWebsocketUpdate(task[t], "starting", wsManager))
    /\ UNCHANGED <<rows, wsManager>>
    /\ UNCHANGED TaskFrame

\* main.py 266: send_json returns
SendJsonOk(t) ==
    /\ task[t].pc = "w_send"
    /\ SetTask(t, AfterSend(task[t], task[t].stage))
    /\ UNCHANGED <<rows, wsManager>>
    /\ UNCHANGED TaskFrame

\* main.py 267-269: send_json raises; the handler deletes the registration,
\* and del raises KeyError when it is no longer there
SendJsonFails(t) ==
    /\ task[t].pc = "w_send"
    /\ IF wsManager
       THEN /\ wsManager' = FALSE
            /\ SetTask(t, AfterSend(task[t], task[t].stage))
       ELSE /\ wsManager' = wsManager
            /\ SetTask(t, SendRaised(task[t], task[t].stage, KeyErrorMsg))
    /\ UNCHANGED rows
    /\ UNCHANGED TaskFrame

\* lines 126-143 with the first matching row taken when there are several
Select_FirstRow(t) ==
    /\ task[t].pc = "w_select"
    /\ SetTask(t,
         IF Cardinality(Matching(t)) = 0
         THEN [task[t] EXCEPT !.pc = "done",
                              !.result = DictResult(FAILED, NotFoundMsg)]
         ELSE [task[t] EXCEPT !.pc = "w_commit_in_progress"])
    /\ UNCHANGED <<rows, wsManager>>
    /\ UNCHANGED TaskFrame

\* lines 126-143: the select returns; scalar_one_or_none gives the row, None
\* (the task returns FAILED) or raises MultipleResultsFound (outside the try
\* block, so the task raises)
Select(t) ==
    /\ task[t].pc = "w_select"
    /\ SetTask(t,
         CASE Cardinality(Matching(t)) = 0 ->
                [task[t] EXCEPT !.pc = "done",
                                !.result = DictResult(FAILED, NotFoundMsg)]
           [] Cardinality(Matching(t)) = 1 ->
                [task[t] EXCEPT !.pc = "w_commit_in_progress"]
           [] OTHER ->
                [task[t] EXCEPT !.pc = "done",
                                !.result = ExcResult(MultipleResultsMsg)])
    /\ UNCHANGED <<rows, wsManager>>
    /\ UNCHANGED TaskFrame

\* lines 142-151: the IN_PROGRESS commit completes and "in_progress" is sent
CommitInProgress(t) ==
    /\ task[t].pc = "w_commit_in_progress"
    /\ rows' = [rows EXCEPT ![RowOf(t)].status = IN_PROGRESS]
    /\ SetTask(t, SendWebsocketUpdate(task[t], "in_progress", wsManager))
    /\ UNCHANGED wsManager
    /\ UNCHANGED TaskFrame

\* lines 154-179: the generation call returns; "processing" is sent
GenerateReturns(t) ==
    /\ task[t].pc = "w_generate"
    /\ \E report_result \in GenResults(providers[t]) :
        SetTask(t, SendWebsocketUpdate(
                     [task[t] EXCEPT
                        !.report_content = report_result.content,
                        !.report_thinking = report_result.thinking,
                        !.gen = [kind |-> "ok",
                                 value |-> report_result.content]],
                     "processing", wsManager))
    /\ UNCHANGED <<rows, wsManager>>
    /\ UNCHANGED TaskFrame

\* lines 154, 208-212: the generation call raises; the handler writes FAILED
\* and awaits the commit
GenerateRaises(t) ==
    /\ task[t].pc = "w_generate"
    /\ \E msg \in GenErrors :
        SetTask(t, [task[t] EXCEPT !.pc = "w_commit_failed", !.e = msg,
                                   !.gen = [kind |-> "err", value |-> msg]])
    /\ UNCHANGED <<rows, wsManager>>
    /\ UNCHANGED TaskFrame

\* lines 182-185 with the thinking text put behind the content
CompletedRow_ThinkingInContent(row, content, thinking) ==
    [row EXCEPT !.content = content \o thinking, !.thinking = thinking,
                !.status = COMPLETED, !.error_message = None]

\* lines 182-185: what the success path writes to the record
CompletedRow(row, content, thinking) ==
    [row EXCEPT !.content = content, !.thinking = thinking,
                !.status = COMPLETED, !.error_message = None]

\* lines 210-211: what the handler writes to the record
FailedRow(row, msg) ==
    [row EXCEPT !.status = FAILED, !.error_message = msg]

\* lines 182-200: the COMPLETED commit completes and "completed" is sent
CommitCompleted(t) ==
    /\ task[t].pc = "w_commit_completed"
    /\ rows' = [rows EXCEPT
                  ![RowOf(t)] = CompletedRow(@, task[t].report_content,
                                             task[t].report_thinking)]
    /\ SetTask(t, SendWebsocketUpdate(task[t], "completed", wsManager))
    /\ UNCHANGED wsManager
    /\ UNCHANGED TaskFrame

\* lines 210-221: the FAILED commit completes and "failed" is sent
CommitFailed(t) ==
    /\ task[t].pc = "w_commit_failed"
    /\ rows' = [rows EXCEPT ![RowOf(t)] = FailedRow(@, task[t].e)]
    /\ SetTask(t, SendWebsocketUpdate(task[t], "failed", wsManager))
    /\ UNCHANGED wsManager
    /\ UNCHANGED TaskFrame

(* ====================================================================== *)
(* report_merger.py                                                        *)
(*                                                                         *)
(* A Python str is a sequence of tokens.  A token is one character of the  *)
(* input alphabet, or one fixed piece of an f-string template of the       *)
(* source (named by its text).                                             *)
(* ====================================================================== *)
NL == "\n"

\* characters str.strip(), str.split() and the regex class \s treat as space
IsSpace(c) == c \in {" ", NL, "\t"}

\* str.lower() on the letters of the alphabet
Lower(c) ==
    CASE c = "M" -> "m"
      [] c = "X" -> "x"
      [] c = "A" -> "a"
      [] OTHER -> c

\* the regex class \w on the alphabet: letters, digits and the underscore
IsWordChar(c) == c \in {"a", "m", "o", "x", "y", "M", "X", "A", "_"}

SetMin(S) == CHOOSE x \in S : \A y \in S : x <= y
SetMax(S) == CHOOSE x \in S : \A y \in S : x >= y

RECURSIVE LStrip(_)
LStrip(str) ==
    IF str = <<>> \/ ~IsSpace(Head(str)) THEN str ELSE LStrip(Tail(str))

RECURSIVE RStrip(_)
RStrip(str) ==
    IF str = <<>> \/ ~IsSpace(str[Len(str)]) THEN str
    ELSE RStrip(SubSeq(str, 1, Len(str) - 1))

\* str.strip()
Strip(str) == RStrip(LStrip(str))

RECURSIVE SplitOn(_, _)
\* str.split(sep) for a one-character separator: always at least one piece
SplitOn(str, sep) ==
    LET at == {i \in 1..Len(str) : str[i] = sep}
    IN  IF at = {} THEN <<str>>
        ELSE <<SubSeq(str, 1, SetMin(at) - 1)>>
                \o SplitOn(SubSeq(str, SetMin(at) + 1, Len(str)), sep)

RECURSIVE Join(_, _)
\* sep.join(pieces), sep a sequence of tokens
Join(pieces, sep) ==
    IF Len(pieces) = 0 THEN <<>>
    ELSE IF Len(pieces) = 1 THEN pieces[1]
    ELSE pieces[1] \o sep \o Join(Tail(pieces), sep)

RECURSIVE Words(_)
\* str.split(): the maximal runs of non-space characters
Words(str) ==
    LET body == LStrip(str)
        sp == {i \in 1..Len(body) : IsSpace(body[i])}
        end == IF sp = {} THEN Len(body) ELSE SetMin(sp) - 1
    IN  IF body = <<>> THEN <<>>
        ELSE <<SubSeq(body, 1, end)>>
                \o Words(SubSeq(body, end + 1, Len(body)))

\* hashlib.md5(...).hexdigest(): a digest that identifies its argument
Md5(str) == <<"md5">> \o str

\* Section(title, content, level, provider): __post_init__ (lines 30-32)
\* computes the hash from the content given to the constructor
NewSection(title, content, level, provider) ==
    [title |-> title, content |-> content, level |-> level,
     provider |-> provider, hash |-> Md5(Strip(content))]

\* the number of leading "#" of a line
RECURSIVE LeadingHashes(_)
LeadingHashes(line) ==
    IF Len(line) > 0 /\ Head(line) = "#"
    THEN 1 + LeadingHashes(Tail(line))
    ELSE 0

\* re.match(r'^(#{1,6})\s+(.+)$', line): 1 to 6 markers, at least one space
\* character and at least one more character (line holds no newline)
HeaderMatches(line) ==
    LET k == LeadingHashes(line)
    IN  /\ k >= 1
        /\ k <= 6
        /\ Len(line) >= k + 2
        /\ IsSpace(line[k + 1])

\* the level counted from zero
HeaderLevel_FromZero(line) == LeadingHashes(line) - 1
\* len(header_match.group(1))
HeaderLevel(line) == LeadingHashes(line)
\* header_match.group(2).strip()
HeaderTitle(line) == Strip(SubSeq(line, LeadingHashes(line) + 2, Len(line)))

\* lines 82-85 and 101-104 without the test of line 84: a section is kept
\* with empty content too
Flush_KeepEmpty(sections, current, current_content) ==
    IF current.open
    THEN Append(sections,
                [current.section EXCEPT
                    !.content = Strip(Join(current_content, <<NL>>))])
    ELSE sections

\* lines 82-85 and 101-104: the section in progress gets its content (its
\* hash is not computed again) and is kept when the content is not empty
Flush(sections, current, current_content) ==
    IF current.open
    THEN LET content == Strip(Join(current_content, <<NL>>))
         IN  IF content # <<>>
             THEN Append(sections, [current.section EXCEPT !.content = content])
             ELSE sections
    ELSE sections

NoCurrent == [open |-> FALSE, section |-> NewSection(<<>>, <<>>, 0, None)]

RECURSIVE ParseLines(_, _, _, _, _)
\* lines 77-106: the loop over the lines, then the last section
ParseLines(lines, provider, sections, current, current_content) ==
    IF Len(lines) = 0
    THEN Flush(sections, current, current_content)
    ELSE LET line == Head(lines)
         IN  IF HeaderMatches(line)
             THEN ParseLines(Tail(lines), provider,
                      Flush(sections, current, current_content),
                      [open |-> TRUE,
                       section |-> NewSection(HeaderTitle(line), <<>>,
                                              HeaderLevel(line), provider)],
                      <<>>)
             ELSE ParseLines(Tail(lines), provider, sections, current,
                             Append(current_content, line))

\* lines 66-106
ParseReportSections(content, provider) ==
    ParseLines(SplitOn(content, NL), provider, <<>>, NoCurrent, <<>>)

\* line 126
common_words ==
    { <<"t", "h", "e">>, <<"a">>, <<"a", "n">>, <<"a", "n", "d">>,
      <<"o", "r">>, <<"o", "f">>, <<"i", "n">>, <<"o", "n">>, <<"a", "t">>,
      <<"t", "o">>, <<"f", "o", "r">> }

MapSeq(str, F(_)) == [i \in 1..Len(str) |-> F(str[i])]

\* lines 120-134
NormalizeTitle(title) ==
    LET lowered == Strip(MapSeq(title, Lower))
        NotCommon(w) == w \notin common_words
        filtered_words == SelectSeq(Words(lowered), NotCommon)
        joined == Join(filtered_words, <<" ">>)
        WordOrSpace(c) == IsWordChar(c) \/ IsSpace(c)
    IN  Strip(SelectSeq(joined, WordOrSpace))

RECURSIVE GroupInto_ByTitle(_, _)
\* grouping on the title as written
GroupInto_ByTitle(groups, sections) ==
    IF Len(sections) = 0 THEN groups
    ELSE LET section == Head(sections)
             key == section.title
             at == {i \in 1..Len(groups) : groups[i].key = key}
         IN  IF at = {}
             THEN GroupInto_ByTitle(Append(groups, [key |-> key,
                                                    sections |-> <<section>>]),
                                    Tail(sections))
             ELSE GroupInto_ByTitle([groups EXCEPT ![SetMin(at)].sections =
                                        Append(@, section)],
                                    Tail(sections))

RECURSIVE GroupInto(_, _)
\* lines 113-116: groups[normalized_title].append(section); a dict keeps its
\* keys in the order of their first insertion
GroupInto(groups, sections) ==
    IF Len(sections) = 0 THEN groups
    ELSE LET section == Head(sections)
             key == NormalizeTitle(section.title)
             at == {i \in 1..Len(groups) : groups[i].key = key}
         IN  IF at = {}
             THEN GroupInto(Append(groups, [key |-> key,
                                            sections |-> <<section>>]),
                            Tail(sections))
             ELSE GroupInto([groups EXCEPT ![SetMin(at)].sections =
                                Append(@, section)],
                            Tail(sections))

\* lines 108-118
GroupSimilarSections(sections) == GroupInto(<<>>, sections)

(* ---------------------------------------------------------------------- *)
(* The merge provider                                                      *)
(* ---------------------------------------------------------------------- *)

\* What the merge provider does on a call of generate_research_report:
\*   unconfigured  get_provider returns None (no API key)
\*   raises        the call raises
\*   dict_text     returns {"content": <text>, "thinking": <text>}
\*   dict_plain    returns {"content": <text>}, no thinking
\*   dict_empty    returns {"content": "", "thinking": None}
\*   dict_missing  returns a dict without the key "content"
\*   dict_none     returns {"content": None, "thinking": None}
MergeProviderBehaviours ==
    {"unconfigured", "raises", "dict_text", "dict_plain", "dict_empty",
     "dict_missing", "dict_none"}

SynthesizedText == <<"synthesized text">>
SynthesisThinking == <<"synthesis thinking">>

\* result.get("content", "") of lines 219 and 296
ResultContent(mp) ==
    CASE mp = "dict_text" -> SynthesizedText
      [] mp = "dict_plain" -> SynthesizedText
      [] mp = "dict_empty" -> <<>>
      [] mp = "dict_missing" -> <<>>
      [] mp = "dict_none" -> PyNone

\* result.get("thinking") of line 297
ResultThinking(mp) == IF mp = "dict_text" THEN SynthesisThinking ELSE PyNone

(* ---------------------------------------------------------------------- *)
(* merge_similar_content                                                   *)
(* ---------------------------------------------------------------------- *)
RECURSIVE UniqueByHash_ByProvider(_, _)
\* lines 162-165 keyed by the section's provider instead of its hash
UniqueByHash_ByProvider(unique, sections) ==
    IF Len(sections) = 0 THEN unique
    ELSE IF \E i \in 1..Len(unique) : unique[i].provider = Head(sections).provider
         THEN UniqueByHash_ByProvider(unique, Tail(sections))
         ELSE UniqueByHash_ByProvider(Append(unique, Head(sections)),
                                      Tail(sections))

RECURSIVE UniqueByHash(_, _)
\* lines 162-165: the first section of every hash, in insertion order
UniqueByHash(unique, sections) ==
    IF Len(sections) = 0 THEN unique
    ELSE IF \E i \in 1..Len(unique) : unique[i].hash = Head(sections).hash
         THEN UniqueByHash(unique, Tail(sections))
         ELSE UniqueByHash(Append(unique, Head(sections)), Tail(sections))

ProvidersOf(sections) == [i \in 1..Len(sections) |-> sections[i].provider]

\* lines 181-184: the fallback when no merge provider is configured
AttributedVariant(section) ==
    <<"**According to ", section.provider, ":**", NL>> \o section.content

\* lines 229-232: the fallback when the synthesis call raises
LabelledVariant(section) ==
    <<"**", section.provider, ":**", NL>> \o section.content

MergedDict(title, content, level, sources) ==
    [title |-> title, content |-> content, level |-> level,
     sources |-> sources]

\* lines 159-238; called tells whether the synthesis call of line 213 was made
MergeSimilarContent(sections, mp) ==
    LET unique_contents == UniqueByHash(<<>>, sections)
        Variants(F(_)) ==
            Join([i \in 1..Len(unique_contents) |-> F(unique_contents[i])],
                 <<NL, NL>>)
        Merged(content) ==
            MergedDict(sections[1].title, content, sections[1].level,
                       ProvidersOf(sections))
    IN  IF Len(unique_contents) = 1
        THEN [merged |-> MergedDict(unique_contents[1].title,
                                    unique_contents[1].content,
                                    unique_contents[1].level,
                                    ProvidersOf(sections)),
              called |-> FALSE]
        ELSE IF mp = "unconfigured"
        THEN [merged |-> Merged(Variants(AttributedVariant)),
              called |-> FALSE]
        ELSE IF mp = "raises"
        THEN [merged |-> Merged(Variants(LabelledVariant)), called |-> TRUE]
        ELSE [merged |-> Merged(ResultContent(mp)), called |-> TRUE]

(* ---------------------------------------------------------------------- *)
(* merge_section_groups                                                    *)
(* ---------------------------------------------------------------------- *)
\* ord(c) for the characters of the alphabet
CharCode(c) ==
    CASE c = "\t" -> 9 [] c = NL -> 10 [] c = " " -> 32 [] c = "#" -> 35
      [] c = "A" -> 65 [] c = "M" -> 77 [] c = "X" -> 88 [] c = "_" -> 95
      [] c = "a" -> 97 [] c = "m" -> 109 [] c = "o" -> 111
      [] c = "x" -> 120 [] c = "y" -> 121

RECURSIVE StrLess(_, _)
\* a < b for two str
StrLess(a, b) ==
    IF Len(b) = 0 THEN FALSE
    ELSE IF Len(a) = 0 THEN TRUE
    ELSE IF CharCode(Head(a)) # CharCode(Head(b))
         THEN CharCode(Head(a)) < CharCode(Head(b))
         ELSE StrLess(Tail(a), Tail(b))

\* line 155: (x['level'], x['title']) < (y['level'], y['title'])
KeyLess(x, y) ==
    \/ x.level < y.level
    \/ x.level = y.level /\ StrLess(x.title, y.title)

\* the merged sections left in the order of the groups
SortMerged_GroupOrder(items) == items

RECURSIVE SortMerged(_)
\* line 155: list.sort is stable; an item goes behind the items that are
\* not greater
SortMerged(items) ==
    IF Len(items) <= 1 THEN items
    ELSE LET rest == SortMerged(SubSeq(items, 1, Len(items) - 1))
             last == items[Len(items)]
             before == {i \in 1..Len(rest) : ~KeyLess(last, rest[i])}
             n == IF before = {} THEN 0 ELSE SetMax(before)
         IN  SubSeq(rest, 1, n) \o <<last>> \o SubSeq(rest, n + 1, Len(rest))

\* lines 140-152: one merged section per group, in the order of the groups
MergeGroup(group, mp) ==
    IF Len(group.sections) = 1
    THEN [merged |-> MergedDict(group.sections[1].title,
                                group.sections[1].content,
                                group.sections[1].level,
                                <<group.sections[1].provider>>),
          called |-> FALSE]
    ELSE MergeSimilarContent(group.sections, mp)

\* lines 136-157
MergeSectionGroups(grouped_sections, mp) ==
    SortMerged([i \in 1..Len(grouped_sections) |->
                    MergeGroup(grouped_sections[i], mp).merged])

(* ---------------------------------------------------------------------- *)
(* generate_master_report                                                  *)
(* ---------------------------------------------------------------------- *)
\* str(n)
NumToken(n) ==
    CASE n = 0 -> "0" [] n = 1 -> "1" [] n = 2 -> "2" [] n = 3 -> "3"
      [] n = 4 -> "4" [] n = 5 -> "5" [] n = 6 -> "6" [] n = 7 -> "7"
      [] n = 8 -> "8" [] n = 9 -> "9" [] OTHER -> "10+"

\* bool(report.content): None and "" are falsy
HasContent(report) == report.content # PyNone /\ report.content # <<>>

RECURSIVE Concat(_)
Concat(pieces) ==
    IF Len(pieces) = 0 THEN <<>> ELSE Head(pieces) \o Concat(Tail(pieces))

\* line 338, len(content.split()): one word starts at every character that
\* is not a space and does not follow one
WordCount(str) ==
    Cardinality({i \in 1..Len(str) :
                    ~IsSpace(str[i]) /\ (i = 1 \/ IsSpace(str[i - 1]))})

\* lines 332-343; the timestamp is whatever utcnow gives
CreateMetadataFooter(original_reports) ==
    <<NL, NL, "---", NL, NL, "## Report Metadata", NL, NL,
      "This master report was generated by merging research from the following providers:",
      NL, NL>>
    \o Concat([i \in 1..Len(original_reports) |->
          <<"- **", original_reports[i].provider, "**: ",
            NumToken(IF HasContent(original_reports[i])
                     THEN WordCount(original_reports[i].content) ELSE 0),
            " words", NL>>])
    \o <<NL, "Generated on: ", "<utcnow>", NL>>

\* lines 322-325 with the heading of every section at level 2
FallbackSection_LevelTwo(section) ==
    <<"#", "#", " ">> \o section.title \o <<NL, NL>>
    \o section.content \o <<NL, NL>>
    \o <<"*Sources: ">> \o Join([i \in 1..Len(section.sources) |->
                                    <<section.sources[i]>>], <<", ">>)
    \o <<"*", NL, NL>>

\* lines 322-325
FallbackSection(section) ==
    [i \in 1..section.level |-> "#"] \o <<" ">> \o section.title \o <<NL, NL>>
    \o section.content \o <<NL, NL>>
    \o <<"*Sources: ">> \o Join([i \in 1..Len(section.sources) |->
                                    <<section.sources[i]>>], <<", ">>)
    \o <<"*", NL, NL>>

\* lines 314-330
CreateFallbackReport(merged_sections, original_reports) ==
    <<"# Master Research Report", NL, NL, "## Executive Summary", NL, NL,
      "This report synthesizes research from multiple AI providers to provide comprehensive insights.",
      NL, NL>>
    \o Concat([i \in 1..Len(merged_sections) |->
                  FallbackSection(merged_sections[i])])
    \o CreateMetadataFooter(original_reports)

MasterReportResult(content, thinking) ==
    [content |-> content, thinking |-> thinking]

\* lines 286-305, the body of the try block: the call raises, or None + str
\* raises TypeError at line 303, or the result is built
TryGenerate(original_reports, mp) ==
    IF mp = "raises" \/ ResultContent(mp) = PyNone
    THEN [raised |-> TRUE, result |-> MasterReportResult(PyNone, PyNone)]
    ELSE [raised |-> FALSE,
          result |-> MasterReportResult(
              ResultContent(mp) \o CreateMetadataFooter(original_reports),
              ResultThinking(mp))]

\* lines 240-312 with the handler of line 307 left out: an exception of the
\* try block leaves generate_master_report
GenerateMasterReport_NoHandler(merged_sections, original_reports, mp) ==
    IF mp = "unconfigured"
    THEN [raised |-> FALSE,
          result |-> MasterReportResult(
              CreateFallbackReport(merged_sections, original_reports), PyNone)]
    ELSE TryGenerate(original_reports, mp)

\* lines 240-312: without a provider (line 248) and on any exception of the
\* try block (line 307) the fallback report is returned
GenerateMasterReport(merged_sections, original_reports, mp) ==
    LET attempt == TryGenerate(original_reports, mp)
    IN  IF mp = "unconfigured" \/ attempt.raised
        THEN [raised |-> FALSE,
              result |-> MasterReportResult(
                  CreateFallbackReport(merged_sections, original_reports),
                  PyNone)]
        ELSE attempt

(* ---------------------------------------------------------------------- *)
(* merge_reports                                                           *)
(* ---------------------------------------------------------------------- *)
\* lines 49-53
AllSections(reports) ==
    Concat([i \in 1..Len(reports) |->
              IF HasContent(reports[i])
              THEN ParseReportSections(reports[i].content, reports[i].provider)
              ELSE <<>>])

\* lines 41-64, with the intermediate values
MergeReports(reports, mp) ==
    LET all_sections == AllSections(reports)
        grouped_sections == GroupSimilarSections(all_sections)
        merged_sections == MergeSectionGroups(grouped_sections, mp)
        master_report_result ==
            GenerateMasterReport(merged_sections, reports, mp)
    IN  [all_sections |-> all_sections,
         grouped_sections |-> grouped_sections,
         merged_sections |-> merged_sections,
         synthesis_calls |->
            {i \in 1..Len(grouped_sections) :
                MergeGroup(grouped_sections[i], mp).called},
         raised |-> master_report_result.raised,
         master |-> master_report_result.result]

(* ---------------------------------------------------------------------- *)
(* merge_reports applied to bounded inputs                                 *)
(* ---------------------------------------------------------------------- *)
\* the lines a report is written with: three headings, two of them with the
\* same normalized title, and two lines of text
LineChoices ==
    { <<"#", "#", " ", "M", "o">>,
      <<"#", " ", "a", " ", "m", "o">>,
      <<"#", "#", " ", "X">>,
      <<"x">>,
      <<"y">> }

ReportProviders == <<OPENAI, ANTHROPIC, XAI>>

\* where a list of k lines is cut into n reports: the index of the last line
\* of each report but the final one
Cuts(n, k) ==
    {c \in [1..(n - 1) -> 0..k] :
        \A i \in 1..(n - 2) : c[i] <= c[i + 1]}

\* the ProviderReport rows main.py 176-193 hands to merge_reports: one per
\* provider, content the report's lines joined by newlines
MakeReports(lines, c, n) ==
    [i \in 1..n |->
        [provider |-> ReportProviders[i],
         content |->
            Join(SubSeq(lines,
                        (IF i = 1 THEN 0 ELSE c[i - 1]) + 1,
                        IF i = n THEN Len(lines) ELSE c[i]),
                 <<NL>>)]]

\* one to three reports with at most MaxTotalLines lines in all
InitMerge ==
    /\ OrchestratorIdle
    /\ ParserIdle
    /\ \E k \in 0..MaxTotalLines : \E lines \in [1..k -> LineChoices] :
        \E n \in 1..Len(ReportProviders) : \E c \in Cuts(n, k) :
            given_reports = MakeReports(lines, c, n)
    /\ merge_pc = "input"
    /\ merge_provider = None
    /\ merge_out = <<>>
    /\ given_sections = <<>>
    /\ reconcile_out = <<>>

\* lines 41-64
MergeReportsCall ==
    /\ merge_pc = "input"
    /\ given_reports # <<>>
    /\ \E mp \in MergeProviderBehaviours :
        /\ merge_provider' = mp
        /\ merge_out' = MergeReports(given_reports, mp)
    /\ merge_pc' = "done"
    /\ UNCHANGED <<orchVars, given_reports, reconcileVars, parseVars>>

NextMerge == MergeReportsCall

SpecMerge == InitMerge /\ [][NextMerge]_vars

(* ---------------------------------------------------------------------- *)
(* merge_similar_content applied to bounded groups                         *)
(* ---------------------------------------------------------------------- *)
SectionTitles == { <<"M", "o">>, <<"a", " ", "m", "o">> }
SectionContents == { <<"x">>, <<"y">>, <<" ", "x">> }

\* a Section made by the constructor with its content
ConstructedSections ==
    {NewSection(t, c, 2, p) :
        t \in SectionTitles, c \in SectionContents, p \in Provider}

\* a Section as parse_report_sections makes it (lines 83 and 90-95): made
\* with content "", the stripped content assigned afterwards
AsParsed(section) ==
    [NewSection(section.title, <<>>, section.level, section.provider)
        EXCEPT !.content = Strip(section.content)]

GroupInputs ==
    UNION {[1..n -> ConstructedSections] : n \in 2..MaxGroup}
    \cup {[i \in DOMAIN g |-> AsParsed(g[i])] :
            g \in UNION {[1..n -> ConstructedSections] : n \in 2..MaxGroup}}

InitReconcile ==
    /\ OrchestratorIdle
    /\ ParserIdle
    /\ given_reports = <<>>
    /\ merge_pc = "input"
    /\ merge_provider = None
    /\ merge_out = <<>>
    /\ given_sections \in GroupInputs
    /\ reconcile_out = <<>>

\* lines 159-238
MergeSimilarContentCall ==
    /\ merge_pc = "input"
    /\ given_sections # <<>>
    /\ \E mp \in MergeProviderBehaviours :
        /\ merge_provider' = mp
        /\ reconcile_out' = MergeSimilarContent(given_sections, mp)
    /\ merge_pc' = "done"
    /\ UNCHANGED <<orchVars, given_reports, merge_out, given_sections,
                 parseVars>>

NextReconcile == MergeSimilarContentCall

SpecReconcile == InitReconcile /\ [][NextReconcile]_vars

(* ---------------------------------------------------------------------- *)
(* parse_report_sections applied to bounded contents, then to the text of  *)
(* one of the sections it returned                                         *)
(* ---------------------------------------------------------------------- *)
\* the lines a content is written with: headings of level 2 and 1, a
\* heading whose title is blank, an indented heading, text with a space
\* behind it, and the empty line
ParseLineChoices ==
    { <<"#", "#", " ", "M", "o">>,
      <<"#", " ", "x">>,
      <<"#", " ", " ">>,
      <<" ", "#", " ", "x">>,
      <<"x", " ">>,
      <<"y">>,
      <<>> }

InitParse ==
    /\ OrchestratorIdle
    /\ MergerIdle
    /\ \E k \in 0..MaxParseLines : \E lines \in [1..k -> ParseLineChoices] :
          parse_in = Join(lines, <<NL>>)
    /\ parse_pc = "input"
    /\ parse_out = <<>>
    /\ reparse = <<>>
    /\ TitlesIdle

\* lines 66-106
ParseCall ==
    /\ parse_pc = "input"
    /\ parse_out' = ParseReportSections(parse_in, OPENAI)
    /\ parse_pc' = "parsed"
    /\ UNCHANGED <<orchVars, mergeVars, reconcileVars, parse_in, reparse,
                   titleVars>>

\* the heading line of a section (section.level markers, a space, the
\* title), a newline and the section's content
SectionText(section) ==
    [i \in 1..section.level |-> "#"] \o <<" ">> \o section.title
    \o <<NL>> \o section.content

\* lines 66-106, on the text of one of the returned sections
ReparseCall ==
    /\ parse_pc = "parsed"
    /\ \E i \in 1..Len(parse_out) :
          reparse' = [of |-> i,
                      sections |->
                          ParseReportSections(SectionText(parse_out[i]),
                                              parse_out[i].provider)]
    /\ parse_pc' = "reparsed"
    /\ UNCHANGED <<orchVars, mergeVars, reconcileVars, parse_in, parse_out,
                   titleVars>>

NextParse == ParseCall \/ ReparseCall

SpecParse == InitParse /\ [][NextParse]_vars

(* ---------------------------------------------------------------------- *)
(* main.py: POST /api/research/{session_id}/merge                          *)
(* ---------------------------------------------------------------------- *)
\* main.py 176-179: the rows of the session, in the order of their ids
ReportsOf(table) ==
    LET ids == DOMAIN table
        at == CHOOSE f \in [1..Cardinality(ids) -> ids] :
                 \A i \in 1..Cardinality(ids), j \in 1..Cardinality(ids) :
                     i < j => f[i] < f[j]
    IN  [k \in 1..Cardinality(ids) |->
            [provider |-> table[at[k]].provider,
             content |-> table[at[k]].content]]

\* main.py 181-189 without the test of the statuses
MergeResponse_NoStatusCheck(table) ==
    IF DOMAIN table = {} THEN "404" ELSE "200"

\* main.py 181-189: the status code the checks of the handler lead to (200:
\* the handler goes on)
MergeResponse(table) ==
    IF DOMAIN table = {} THEN "404"
    ELSE IF \E i \in DOMAIN table : table[i].status # COMPLETED THEN "400"
    ELSE "200"

\* main.py 181-189: the handler raises HTTPException and is over
MergeRejected ==
    /\ merge_pc = "idle"
    /\ MergeResponse(rows) # "200"
    /\ merge_pc' = MergeResponse(rows)
    /\ UNCHANGED <<orchVars, given_reports, merge_provider, merge_out,
                   reconcileVars, parseVars>>

\* main.py 176-193: the request is refused with 404 when the session has no
\* provider report and with 400 when one is not COMPLETED; otherwise the
\* reports are handed to ReportMerger.merge_reports
MergeRequest ==
    /\ merge_pc = "idle"
    /\ MergeResponse(rows) = "200"
    /\ given_reports' = ReportsOf(rows)
    /\ merge_pc' = "input"
    /\ UNCHANGED <<orchVars, merge_provider, merge_out, reconcileVars, parseVars>>

\* main.py 196-209: the master report row and the session status MERGED are
\* committed together and the handler returns.  master_reports.session_id is
\* unique (models.py 57): a second row for the session is refused.
MergeCommit ==
    /\ merge_pc = "done"
    /\ master_reports = <<>>
    /\ master_reports' = <<[session_id |-> "session"]>>
    /\ sessStatus' = MERGED
    /\ merge_pc' = "idle"
    /\ given_reports' = <<>>
    /\ merge_provider' = None
    /\ merge_out' = <<>>
    /\ UNCHANGED <<providers, rows, opc, finalStatus, task, wsManager,
                   reconcileVars, parseVars>>

\* main.py 196-206: the store refuses the insert (a second master report of
\* the session, or a content value it cannot bind: line 196 passes the
\* MasterReportResult object); the transaction is rolled back and the
\* handler raises
MergeCommitRaises ==
    /\ merge_pc = "done"
    /\ merge_pc' = "idle"
    /\ given_reports' = <<>>
    /\ merge_provider' = None
    /\ merge_out' = <<>>
    /\ UNCHANGED <<orchVars, reconcileVars, parseVars>>

Next ==
    \/ ApiStartResearch
    \/ DirectStartResearch
    \/ WsConnect
    \/ WsDisconnect
    \/ StartTasks
    \/ Gather
    \/ CommitFinal
    \/ \E t \in Tasks : TaskStart(t)
    \/ \E t \in Tasks : SendJsonOk(t)
    \/ \E t \in Tasks : SendJsonFails(t)
    \/ \E t \in Tasks : Select(t)
    \/ \E t \in Tasks : CommitInProgress(t)
    \/ \E t \in Tasks : GenerateReturns(t)
    \/ \E t \in Tasks : GenerateRaises(t)
    \/ \E t \in Tasks : CommitCompleted(t)
    \/ \E t \in Tasks : CommitFailed(t)

Spec == Init /\ [][Next]_vars

\* The steps the event loop, the store and the notifier take on their own:
\* a coroutine that can run is run, a commit or a select completes, a
\* send_json call returns or raises.  The requests, the websocket clients
\* and the generation calls of lines 154-159 are not among them.
ProgramStep ==
    \/ StartTasks
    \/ Gather
    \/ CommitFinal
    \/ \E t \in Tasks :
          \/ TaskStart(t)
          \/ SendJsonOk(t)
          \/ SendJsonFails(t)
          \/ Select(t)
          \/ CommitInProgress(t)
          \/ CommitCompleted(t)
          \/ CommitFailed(t)

\* the orchestrator under a scheduler that does not stop: nothing is assumed
\* of the generation calls, which may never return
SpecFair == Init /\ [][Next]_vars /\ WF_vars(ProgramStep)

\* the orchestrator together with the merge requests of its session
NextWithMerge ==
    \/ Next
    \/ MergeRequest
    \/ MergeReportsCall
    \/ MergeCommit
    \/ MergeCommitRaises

SpecWithMerge == Init /\ [][NextWithMerge]_vars

(* ---------------------------------------------------------------------- *)
(* normalize_title applied to bounded titles                               *)
(* ---------------------------------------------------------------------- *)
\* what a title is written with between single spaces: a word in two
\* spellings, a stopword, the stopword with a comma attached, a free-standing
\* dash, and nothing (which makes a leading, trailing or double space)
TitleWords ==
    { <<"M", "o">>, <<"m", "o">>, <<"a">>, <<"a", ",">>, <<"-">>, <<>> }

\* two titles of up to MaxTitleWords words each
InitTitle ==
    /\ OrchestratorIdle
    /\ MergerIdle
    /\ parse_in = <<>>
    /\ parse_pc = "idle"
    /\ parse_out = <<>>
    /\ reparse = <<>>
    /\ \E k1 \in 1..MaxTitleWords : \E w1 \in [1..k1 -> TitleWords] :
        \E k2 \in 1..MaxTitleWords : \E w2 \in [1..k2 -> TitleWords] :
            titles = <<Join(w1, <<" ">>), Join(w2, <<" ">>)>>
    /\ title_pc = "input"
    /\ title_keys = <<>>

\* lines 120-134, on each of the two titles
NormalizeTitleCall ==
    /\ title_pc = "input"
    /\ title_keys' = <<NormalizeTitle(titles[1]), NormalizeTitle(titles[2])>>
    /\ title_pc' = "normalized"
    /\ UNCHANGED <<orchVars, mergeVars, reconcileVars, parse_in, parse_pc,
                   parse_out, reparse, titles>>

NextTitle == NormalizeTitleCall

SpecTitle == InitTitle /\ [][NextTitle]_vars

(* ---------------------------------------------------------------------- *)
(* The merge endpoint on the stores a research can leave behind            *)
(* ---------------------------------------------------------------------- *)
\* a provider_reports row in a given status: a COMPLETED row holds a report
StoredRow(p, status) ==
    [NewRow(p) EXCEPT !.status = status,
                      !.content = IF status = COMPLETED THEN ReportText[p]
                                  ELSE PyNone,
                      !.error_message = IF status = FAILED THEN "timeout"
                                        ELSE None]

\* the session of the request has up to MaxStoredRows provider reports, in
\* any status; it is COMPLETED or FAILED only when no report is unfinished
InitEndpoint ==
    /\ providers = <<>>
    /\ task = <<>>
    /\ opc = "done"
    /\ finalStatus = None
    /\ wsManager = FALSE
    /\ master_reports = <<>>
    /\ \E n \in 0..MaxStoredRows :
          \E ps \in [1..n -> Provider] :
            \E st \in [1..n -> ResearchStatus \ {MERGED}] :
              /\ rows = [i \in 1..n |-> StoredRow(ps[i], st[i])]
              /\ sessStatus \in
                    IF \E i \in 1..n : st[i] \in {PENDING, IN_PROGRESS}
                    THEN {PENDING, IN_PROGRESS}
                    ELSE {IN_PROGRESS, COMPLETED, FAILED}
    /\ MergerIdle
    /\ ParserIdle

NextEndpoint ==
    \/ MergeRequest
    \/ MergeRejected
    \/ MergeReportsCall
    \/ MergeCommit
    \/ MergeCommitRaises

SpecEndpoint == InitEndpoint /\ [][NextEndpoint]_vars

(* ====================================================================== *)
(* Properties of the orchestrator                                          *)
(* ====================================================================== *)
IsTerminal(status) == status \in {COMPLETED, FAILED}

ReturnedCompleted(t) ==
    task[t].result.kind = "dict" /\ task[t].result.status = COMPLETED

\* C1: when start_research finishes (its final commit completes), the stored
\* session status is COMPLETED if and only if every provider task it launched
\* returned a dict with status COMPLETED; otherwise (some task returned FAILED
\* or raised) it is FAILED.
C1_SessionCompletedIffAllCompleted ==
    [][ (opc = "w_commit_final" /\ opc' = "done") =>
            /\ sessStatus' \in {COMPLETED, FAILED}
            /\ (sessStatus' = COMPLETED) <=> (\A t \in Launched : ReturnedCompleted(t))
      ]_vars

\* start_research has finished with one task that raised and one that
\* returned COMPLETED, and the session is FAILED
C1_Witness ==
    /\ opc = "done"
    /\ sessStatus = FAILED
    /\ \E t \in Launched : task[t].result.kind = "exc"
    /\ \E t \in Launched : ReturnedCompleted(t)

\* the scenario of C2: every launched task made its generation call, exactly
\* one call raised, every other call returned non-empty content
OneGenerationFailed(f) ==
    /\ f \in Launched
    /\ Cardinality(Launched) >= 2
    /\ task[f].gen.kind = "err"
    /\ \A t \in Launched \ {f} :
        task[t].gen.kind = "ok" /\ task[t].gen.value # <<>>

\* C2: if one provider's generation call fails with an error message while
\* the other providers' calls succeed, then once start_research has finished
\* the failing provider's record is FAILED with that message, every other
\* provider's record is COMPLETED with its own non-empty content and no
\* error, and the session is FAILED.
C2_FailureIsIsolated ==
    \A f \in Tasks :
        (opc = "done" /\ OneGenerationFailed(f)) =>
            /\ rows[RowOf(f)].status = FAILED
            /\ rows[RowOf(f)].error_message = task[f].gen.value
            /\ sessStatus = FAILED
            /\ \A t \in Launched \ {f} :
                /\ rows[RowOf(t)].status = COMPLETED
                /\ rows[RowOf(t)].content = task[t].gen.value
                /\ rows[RowOf(t)].error_message = None

TerminalEvents(t) ==
    {k \in DOMAIN task[t].events :
        task[t].events[k].status \in {"completed", "failed"}}

\* C3: for every launched provider task that has finished, exactly one
\* terminal progress event (completed or failed) was emitted, it carries
\* progress 1.0 and it is the last event of that task.
C3_ExactlyOneTerminalEvent ==
    \A t \in Launched :
        task[t].pc = "done" =>
            /\ Cardinality(TerminalEvents(t)) = 1
            /\ \A k \in TerminalEvents(t) :
                /\ task[t].events[k].progress = 10
                /\ k = Len(task[t].events)

AllowedMove(old, new) ==
    \/ new = old
    \/ old = PENDING /\ new = IN_PROGRESS
    \/ old = IN_PROGRESS /\ new \in {COMPLETED, FAILED}

\* C4: a ProviderTask record's status only moves PENDING -> IN_PROGRESS ->
\* COMPLETED or FAILED, and a terminal status never changes again.
C4_RecordStatusLifecycle ==
    [][ \A i \in DOMAIN rows :
            i \in DOMAIN rows' => AllowedMove(rows[i].status, rows'[i].status)
      ]_vars

\* C9: when start_research launched no provider task, the session's final
\* stored status is FAILED.
C9_NoTaskMeansFailed ==
    (opc = "done" /\ Launched = {}) => sessStatus = FAILED

\* C10: in every reachable state a record holds content only if its status
\* is COMPLETED and an error message only if its status is FAILED.
C10_ContentOnlyWhenCompleted ==
    \A i \in DOMAIN rows :
        /\ rows[i].content # PyNone => rows[i].status = COMPLETED
        /\ rows[i].error_message # None => rows[i].status = FAILED

\* the place of a stage in a provider's lifecycle
StageRank ==
    [s \in {"starting", "in_progress", "processing", "completed", "failed"} |->
        CASE s = "starting" -> 1
          [] s = "in_progress" -> 2
          [] s = "processing" -> 3
          [] s = "completed" -> 4
          [] s = "failed" -> 4]

\* C11: the events emitted for one provider of a session have strictly
\* increasing progress values and go through the stages starting,
\* in_progress, processing, then completed or failed, in that order: a
\* stage may be skipped, none is repeated or comes after a later one.
\* Nothing is required between events of different providers.
C11_EventsInLifecycleOrder ==
    \A t1 \in Launched, t2 \in Launched :
        providers[t1] = providers[t2] =>
            \A k1 \in DOMAIN task[t1].events, k2 \in DOMAIN task[t2].events :
                /\ (t1 = t2 /\ k1 < k2) =>
                    /\ task[t1].events[k1].progress < task[t2].events[k2].progress
                    /\ StageRank[task[t1].events[k1].status]
                         < StageRank[task[t2].events[k2].status]
                /\ t1 # t2 =>
                    StageRank[task[t1].events[k1].status]
                        # StageRank[task[t2].events[k2].status]

\* the place of a session status in the lifecycle of a session
SessionRank ==
    [s \in {"none"} \cup ResearchStatus |->
        CASE s = "none" -> 0
          [] s = PENDING -> 1
          [] s = IN_PROGRESS -> 2
          [] s = COMPLETED -> 3
          [] s = FAILED -> 3
          [] s = MERGED -> 4]

C20_TerminalOnlyAfterAllTasks ==
    /\ opc \in {"w_commit_final", "done"} =>
          \A t \in Launched : task[t].pc = "done"
    /\ sessStatus \in {COMPLETED, FAILED} =>
          /\ opc = "done"
          /\ \A t \in Launched : task[t].pc = "done"
    /\ (\E t \in Launched : task[t].pc # "done") =>
          /\ opc = "w_gather"
          /\ sessStatus = IN_PROGRESS

\* one task has raised while a sibling's generation call is still pending,
\* and start_research is still waiting with the session IN_PROGRESS.
C20_Witness ==
    /\ opc = "w_gather"
    /\ sessStatus = IN_PROGRESS
    /\ \E t \in Launched : task[t].pc = "done" /\ task[t].result.kind = "exc"
    /\ \E u \in Launched : task[u].pc = "w_generate"

\* task t awaits its generation call (lines 154-159)
AtGenerate(t) == t \in DOMAIN task /\ task[t].pc = "w_generate"

\* the generation call of task u has returned or raised
CallFinished(u) == u \in DOMAIN task /\ task[u].gen.kind # "none"

\* task u has ended and its record is COMPLETED or FAILED
Settled(u) ==
    /\ u \in DOMAIN task
    /\ task[u].pc = "done"
    /\ Cardinality(Matching(u)) = 1
    /\ rows[RowOf(u)].status \in {COMPLETED, FAILED}

\* start_research waits for its tasks or for its final commit
StillWaiting == opc \in {"w_gather", "w_commit_final"}

\* C16: if the generation call of every launched task eventually returns or
\* raises, start_research does not wait forever: it gets past gather and
\* its final commit (its steps go one way, so it is then done), and when it
\* is done the session is COMPLETED or FAILED.  As long as the call of one
\* launched task has not returned, the orchestrator waits and the session is
\* IN_PROGRESS (so forever, when the call never returns).  Every task whose
\* call has finished gets to its end with its record COMPLETED or FAILED,
\* whatever the other calls do.
C16_TerminatesUnlessACallHangs ==
    /\ (\A t \in 1..MaxProviders : []<>(~AtGenerate(t)))
          => []<>(~StillWaiting)
    /\ [](opc = "done" => sessStatus \in {COMPLETED, FAILED})
    /\ [](\A t \in 1..MaxProviders :
            AtGenerate(t) => (opc = "w_gather" /\ sessStatus = IN_PROGRESS))
    /\ []<>(\A u \in Tasks : CallFinished(u) => Settled(u))

\* one call is still pending while a sibling, whose call returned, has ended
\* with its record COMPLETED, and the session is IN_PROGRESS.
C16_Witness ==
    /\ opc = "w_gather"
    /\ sessStatus = IN_PROGRESS
    /\ \E t \in Tasks : AtGenerate(t)
    /\ \E u \in Tasks :
          /\ task[u].gen.kind = "ok"
          /\ Settled(u)
          /\ rows[RowOf(u)].status = COMPLETED

\* the tasks of the call that were given the provider of record i
TasksFor(i) == {t \in Tasks : providers[t] = rows[i].provider}

IsNonEmptyText(text) == text # <<>> /\ text # PyNone

Contains(text, part) ==
    \E i \in 0..(Len(text) - Len(part)) :
        SubSeq(text, i + 1, i + Len(part)) = part

Configured == MergeProviderBehaviours \ {"unconfigured"}

\* C5: merge_reports, on a non-empty list of reports and whatever the merge
\* provider does, returns without raising a result whose content is
\* non-empty.
C5_MergeReportsTotal ==
    (merge_pc = "done" /\ Len(given_reports) >= 1) =>
        /\ ~merge_out.raised
        /\ IsNonEmptyText(merge_out.master.content)

\* merge_reports has returned a non-empty report although the provider's
\* result held no content, or its content was missing.
C5_Witness ==
    /\ merge_pc = "done"
    /\ merge_provider \in {"dict_empty", "dict_none"}
    /\ merge_out.all_sections # <<>>
    /\ ~merge_out.raised
    /\ IsNonEmptyText(merge_out.master.content)

\* a group whose sections come from different providers, carry one title and
\* pairwise different text
SameTitleDifferentText(group) ==
    /\ Len(group.sections) >= 2
    /\ \A i, j \in 1..Len(group.sections) :
          /\ group.sections[i].title = group.sections[j].title
          /\ i # j => /\ group.sections[i].provider # group.sections[j].provider
                      /\ group.sections[i].content # group.sections[j].content

MergedFor(key) ==
    {k \in 1..Len(merge_out.merged_sections) :
        NormalizeTitle(merge_out.merged_sections[k].title) = key}

\* C6: with the merge provider unavailable, sections of one title and
\* different text from several providers give one merged section that holds
\* every provider's text under its attribution header and whose sources are
\* all those providers.
C6_EveryVariantKept ==
    (merge_pc = "done" /\ merge_provider = "unconfigured") =>
        \A g \in 1..Len(merge_out.grouped_sections) :
            LET group == merge_out.grouped_sections[g] IN
            SameTitleDifferentText(group) =>
                /\ Cardinality(MergedFor(group.key)) = 1
                /\ \A k \in MergedFor(group.key) :
                    LET merged == merge_out.merged_sections[k] IN
                    /\ \A i \in 1..Len(group.sections) :
                          Contains(merged.content,
                                   <<"**According to ",
                                     group.sections[i].provider, ":**", NL>>
                                   \o group.sections[i].content)
                    /\ {merged.sources[i] : i \in 1..Len(merged.sources)}
                        = {group.sections[i].provider :
                              i \in 1..Len(group.sections)}

\* two sections of different providers with one normalized title and the
\* same trimmed content
IdenticalPair(sections) ==
    /\ Len(sections) = 2
    /\ sections[1].provider # sections[2].provider
    /\ NormalizeTitle(sections[1].title) = NormalizeTitle(sections[2].title)
    /\ Strip(sections[1].content) = Strip(sections[2].content)

\* C7: two sections of different providers with one normalized title and
\* identical trimmed content are merged into one section with the shared
\* content and both providers as sources, and no synthesis call is made.
C7_IdenticalContentCollapses ==
    (merge_pc = "done" /\ IdenticalPair(given_sections)) =>
        /\ reconcile_out.merged.content \in
              {given_sections[1].content, given_sections[2].content}
        /\ Strip(reconcile_out.merged.content) = Strip(given_sections[1].content)
        /\ reconcile_out.merged.sources =
              <<given_sections[1].provider, given_sections[2].provider>>
        /\ ~reconcile_out.called

\* a configured provider was at hand, the two sections were made by the
\* constructor with content that differs only in surrounding whitespace, and
\* they collapsed without a call.
C7_Witness ==
    /\ merge_pc = "done"
    /\ merge_provider \in Configured
    /\ IdenticalPair(given_sections)
    /\ given_sections[1].hash # Md5(<<>>)
    /\ given_sections[1].content # given_sections[2].content
    /\ reconcile_out.merged.sources =
          <<given_sections[1].provider, given_sections[2].provider>>
    /\ ~reconcile_out.called

\* C8: for a group of two or more sections, each with non-empty content,
\* merge_similar_content returns a merged section whose content is
\* non-empty, whatever the merge provider does.
C8_MergedContentNonEmpty ==
    ( /\ merge_pc = "done"
      /\ Len(given_sections) >= 2
      /\ \A i \in 1..Len(given_sections) : given_sections[i].content # <<>> )
    => IsNonEmptyText(reconcile_out.merged.content)

\* no line of the report's content is a heading line
HeadingLess(report) ==
    HasContent(report) =>
        \A i \in 1..Len(SplitOn(report.content, NL)) :
            ~HeaderMatches(SplitOn(report.content, NL)[i])

\* the fixed header and the generic executive-summary stub of the fallback
\* report
FixedHeaderAndStub ==
    <<"# Master Research Report", NL, NL, "## Executive Summary", NL, NL,
      "This report synthesizes research from multiple AI providers to provide comprehensive insights.",
      NL, NL>>

\* C13: when no input report holds a heading line, the parser returns no
\* section and merge_reports returns the fallback report made of the fixed
\* header, the executive-summary stub and the metadata footer only, whether
\* the merge provider is configured or not.
C13_HeadingLessGivesFallback ==
    ( /\ merge_pc = "done"
      /\ \A i \in 1..Len(given_reports) : HeadingLess(given_reports[i]) )
    => /\ merge_out.all_sections = <<>>
       /\ merge_out.merged_sections = <<>>
       /\ merge_out.master.content =
             FixedHeaderAndStub \o CreateMetadataFooter(given_reports)

\* C19: every Section returned by parse_report_sections carries the hash of
\* its own trimmed content, so two returned sections have equal hashes
\* exactly when their trimmed contents are equal.
C19_HashOfOwnContent ==
    merge_pc = "done" =>
        /\ \A i \in 1..Len(merge_out.all_sections) :
              merge_out.all_sections[i].hash =
                  Md5(Strip(merge_out.all_sections[i].content))
        /\ \A i, j \in 1..Len(merge_out.all_sections) :
              (merge_out.all_sections[i].hash = merge_out.all_sections[j].hash)
              <=> (Strip(merge_out.all_sections[i].content)
                      = Strip(merge_out.all_sections[j].content))

SameSection(s, t) ==
    s.title = t.title /\ s.level = t.level /\ s.content = t.content

\* the section's own text reproduces the section
Reproduced ==
    /\ Len(reparse.sections) = 1
    /\ SameSection(reparse.sections[1], parse_out[reparse.of])

\* C14 as stated: for every Section returned by parse_report_sections,
\* parsing its heading line, a newline and its content returns exactly one
\* section with the same title, level and content.
C14_ReparseReproduces ==
    parse_pc = "reparsed" => Reproduced

\* the section has a title and its content does not start with a heading line
WellFormed(section) ==
    /\ section.title # <<>>
    /\ ~HeaderMatches(SplitOn(section.content, NL)[1])

\* C14, amended: for every returned Section whose title is not empty and
\* whose content does not begin with a heading line, parsing its heading
\* line, a newline and its content returns exactly one section with the
\* same title, level and content.
C14_WellFormedReparseReproduces ==
    (parse_pc = "reparsed" /\ WellFormed(parse_out[reparse.of])) => Reproduced

\* a returned section with a content of two lines, whose text is not the
\* parsed content itself (whitespace was trimmed), has been parsed again and
\* reproduced.
C14_Witness ==
    /\ parse_pc = "reparsed"
    /\ WellFormed(parse_out[reparse.of])
    /\ Contains(parse_out[reparse.of].content, <<NL>>)
    /\ SectionText(parse_out[reparse.of]) # parse_in
    /\ Reproduced

\* C15: the merged sections merge_reports produces are in ascending order
\* of (level, title); no two of them share a (level, title) pair, so the
\* order is fixed by the sections themselves and not by the order in which
\* the reports and their sections arrived: any two runs on the same input
\* with a provider of fixed output give the same order.
C15_MergedSectionsSorted ==
    merge_pc = "done" =>
        \A i, j \in 1..Len(merge_out.merged_sections) :
            i < j => KeyLess(merge_out.merged_sections[i],
                             merge_out.merged_sections[j])

\* the sort has moved a section: the first merged section is not the one
\* of the first group, and a lower level comes before a higher one.
C15_Witness ==
    /\ merge_pc = "done"
    /\ Len(merge_out.merged_sections) >= 2
    /\ NormalizeTitle(merge_out.merged_sections[1].title)
          # merge_out.grouped_sections[1].key
    /\ merge_out.merged_sections[1].level < merge_out.merged_sections[2].level

(* ====================================================================== *)
(* Properties of research and merge together                               *)
(* ====================================================================== *)
\* the contents a run hands on are those of the run whose merge provider
\* returns the same text without a thinking text
SameAsWithoutThinking(out) ==
    LET plain == MergeReports(given_reports, "dict_plain")
    IN  /\ out.merged_sections = plain.merged_sections
        /\ out.master.content = plain.master.content

C22_MergeOnlyWhenAllCompleted ==
    [][ /\ rows' = rows
        /\ (merge_pc = "idle" /\ merge_pc' # "idle") =>
              /\ sessStatus' = sessStatus
              /\ master_reports' = master_reports
              /\ merge_pc' = "input" <=>
                    /\ DOMAIN rows # {}
                    /\ \A i \in DOMAIN rows : rows[i].status = COMPLETED
              /\ merge_pc' = "404" <=> DOMAIN rows = {}
              /\ merge_pc' = "400" <=>
                    \E i \in DOMAIN rows : rows[i].status # COMPLETED
        /\ (merge_pc' = "done" /\ merge_pc # "done") =>
              /\ merge_pc = "input"
              /\ given_reports = ReportsOf(rows)
        /\ (sessStatus' # sessStatus \/ master_reports' # master_reports) =>
              /\ merge_pc = "done"
              /\ sessStatus' = MERGED
              /\ master_reports' # <<>>
      ]_vars

\* a request for a session with a COMPLETED and a FAILED record has ended
\* with 400, and nothing was merged.
C22_Witness ==
    /\ merge_pc = "400"
    /\ \E i, j \in DOMAIN rows :
          rows[i].status = COMPLETED /\ rows[j].status = FAILED
    /\ master_reports = <<>>
    /\ sessStatus # MERGED

\* a heading line: 1 to 6 marker characters, whitespace, and a title (at
\* least one more character)
IsHeadingLine(line) ==
    \E k \in 1..6 :
        /\ Len(line) >= k + 2
        /\ \A j \in 1..k : line[j] = "#"
        /\ IsSpace(line[k + 1])

\* the number of marker characters of a heading line
MarkersOf(line) ==
    CHOOSE k \in 1..6 :
        /\ Len(line) >= k + 2
        /\ \A j \in 1..k : line[j] = "#"
        /\ IsSpace(line[k + 1])

\* the sections the text calls for: one for each heading line whose text up
\* to the next heading line or the end is not empty once trimmed, in the
\* order of the lines
SectionsCalledFor(text) ==
    LET lines == SplitOn(text, NL)
        heads == {i \in 1..Len(lines) : IsHeadingLine(lines[i])}
        NextHead(i) == SetMin({j \in heads : j > i} \cup {Len(lines) + 1})
        TextOf(i) ==
            Strip(Join(SubSeq(lines, i + 1, NextHead(i) - 1), <<NL>>))
        kept == {i \in heads : TextOf(i) # <<>>}
        At(k) == CHOOSE i \in kept : Cardinality({j \in kept : j <= i}) = k
    IN  [k \in 1..Cardinality(kept) |->
            [title |-> Strip(SubSeq(lines[At(k)], MarkersOf(lines[At(k)]) + 2,
                                    Len(lines[At(k)]))),
             level |-> MarkersOf(lines[At(k)]),
             content |-> TextOf(At(k))]]

\* C23: parse_report_sections returns, in document order, exactly one
\* section for each heading line whose following text up to the next heading
\* line or the end of the input is not empty after trimming, with the number
\* of markers as level, the trimmed title and that trimmed text; text before
\* the first heading and headings without text give no section.
C23_OneSectionPerHeadingWithText ==
    parse_pc \in {"parsed", "reparsed"} =>
        [k \in 1..Len(parse_out) |->
            [title |-> parse_out[k].title,
             level |-> parse_out[k].level,
             content |-> parse_out[k].content]]
          = SectionsCalledFor(parse_in)

\* the content began with text, had a heading without text and a heading
\* with text: one section was returned, for the last heading.
C23_Witness ==
    /\ parse_pc = "parsed"
    /\ ~IsHeadingLine(SplitOn(parse_in, NL)[1])
    /\ Strip(SplitOn(parse_in, NL)[1]) # <<>>
    /\ Cardinality({i \in 1..Len(SplitOn(parse_in, NL)) :
                        IsHeadingLine(SplitOn(parse_in, NL)[i])}) = 2
    /\ Len(parse_out) = 1
    /\ parse_out[1].level = 2

\* the sections of a list whose title has the normalized key k, in the order
\* of the list
WithKey(sections, k) ==
    LET HasKey(s) == NormalizeTitle(s.title) = k
    IN  SelectSeq(sections, HasKey)

\* C24: group_similar_sections partitions its input: there is exactly one
\* group for each normalized key among the parsed sections, and it holds all
\* the sections with that key, each once, in their input order, whatever
\* their provider or heading level.
C24_GroupsPartitionByKey ==
    merge_pc = "done" =>
        LET all == merge_out.all_sections
            groups == merge_out.grouped_sections
            keys == {NormalizeTitle(all[i].title) : i \in 1..Len(all)}
        IN  /\ Len(groups) = Cardinality(keys)
            /\ \A k \in keys :
                 \E g \in 1..Len(groups) :
                    groups[g].sections = WithKey(all, k)

\* two providers wrote a section under different titles with the same key at
\* different heading levels: one group with the two sections in input order.
C24_Witness ==
    /\ merge_pc = "done"
    /\ Len(merge_out.all_sections) = 2
    /\ Len(merge_out.grouped_sections) = 1
    /\ LET ss == merge_out.grouped_sections[1].sections
       IN  /\ ss = merge_out.all_sections
           /\ ss[1].provider # ss[2].provider
           /\ ss[1].level # ss[2].level
           /\ ss[1].title # ss[2].title

IsUpper(c) == Lower(c) # c
IsPunctuation(c) == c \in {",", "-"}

\* what is left of a title when letter case, punctuation, stopwords and
\* spacing are taken away: its words in lower case without their punctuation
\* characters, the empty ones and the stopwords dropped
Essence(title) ==
    LET NotPunctuation(c) == ~IsPunctuation(c)
        Bare(w) == SelectSeq(MapSeq(w, Lower), NotPunctuation)
        ws == Words(title)
        bare == [i \in 1..Len(ws) |-> Bare(ws[i])]
        Kept(w) == w # <<>> /\ w \notin common_words
    IN  SelectSeq(bare, Kept)

\* the key is in normal form
KeyInNormalForm(key) ==
    /\ \A i \in 1..Len(key) : ~IsUpper(key[i]) /\ ~IsPunctuation(key[i])
    /\ \A i \in 1..Len(Words(key)) : Words(key)[i] \notin common_words
    /\ \A i \in 1..(Len(key) - 1) : ~(IsSpace(key[i]) /\ IsSpace(key[i + 1]))

\* C25: the key normalize_title returns holds no uppercase letter, no
\* punctuation character, no stopword and no run of two or more whitespace
\* characters, and two titles that differ only in letter case, stopwords,
\* punctuation or spacing get the same key.
C25_KeyNormalAndSharedByVariants ==
    title_pc = "normalized" =>
        /\ KeyInNormalForm(title_keys[1])
        /\ KeyInNormalForm(title_keys[2])
        /\ Essence(titles[1]) = Essence(titles[2])
              => title_keys[1] = title_keys[2]

\* the parts of C25, apart
C25_NoUpperNoPunctuation ==
    title_pc = "normalized" =>
        \A i \in 1..Len(title_keys[1]) :
            ~IsUpper(title_keys[1][i]) /\ ~IsPunctuation(title_keys[1][i])
C25_NoStopword ==
    title_pc = "normalized" =>
        \A i \in 1..Len(Words(title_keys[1])) :
            Words(title_keys[1])[i] \notin common_words
C25_NoDoubleSpace ==
    title_pc = "normalized" =>
        \A i \in 1..(Len(title_keys[1]) - 1) :
            ~(IsSpace(title_keys[1][i]) /\ IsSpace(title_keys[1][i + 1]))
C25_VariantsShareKey ==
    title_pc = "normalized" =>
        (Essence(titles[1]) = Essence(titles[2])
            => title_keys[1] = title_keys[2])

\* the sections of a group that are the first with their hash, in order
FirstVariants(sections) ==
    LET IsFirst(i) == \A j \in 1..(i - 1) : sections[j].hash # sections[i].hash
        firsts == {i \in 1..Len(sections) : IsFirst(i)}
        At(k) == CHOOSE i \in firsts : Cardinality({j \in firsts : j <= i}) = k
    IN  [k \in 1..Cardinality(firsts) |-> sections[At(k)]]

\* the variants one after the other, two newlines between them, each under
\* the header "**According to <provider>:**"
AccordingToText(variants) ==
    Join([k \in 1..Len(variants) |->
            <<"**According to ", variants[k].provider, ":**", NL>>
                \o variants[k].content],
         <<NL, NL>>)

Divergent(sections) ==
    \E i, j \in 1..Len(sections) : sections[i].hash # sections[j].hash

\* C26: for a group with divergent content the fallback result is the same
\* whether the merge provider is unavailable or its synthesis call raises:
\* the unique variants concatenated, each under the header
\* "**According to <provider>:**", title and level of the first section, and
\* all contributing providers as sources.
C26_FallbackSameEitherWay ==
    (/\ merge_pc = "done"
     /\ given_sections # <<>>
     /\ merge_provider \in {"unconfigured", "raises"}
     /\ Divergent(given_sections)) =>
        LET merged == reconcile_out.merged
        IN  /\ merged.title = given_sections[1].title
            /\ merged.level = given_sections[1].level
            /\ merged.content = AccordingToText(FirstVariants(given_sections))
            /\ {merged.sources[i] : i \in 1..Len(merged.sources)}
                 = {given_sections[i].provider : i \in 1..Len(given_sections)}

\* C26 for the unavailable provider alone
C26_Unconfigured ==
    (merge_provider = "unconfigured" => C26_FallbackSameEitherWay)

RECURSIVE SectionsText(_)
\* the merged sections one after the other: heading line with the section's
\* level, blank line, content, blank line, sources line, blank line
SectionsText(merged_sections) ==
    IF merged_sections = <<>> THEN <<>>
    ELSE LET s == Head(merged_sections)
             markers == [i \in 1..s.level |-> "#"]
             names == Join([i \in 1..Len(s.sources) |-> <<s.sources[i]>>],
                           <<", ">>)
         IN  markers \o <<" ">> \o s.title \o <<NL, NL>>
             \o s.content \o <<NL, NL>>
             \o <<"*Sources: ">> \o names \o <<"*", NL, NL>>
             \o SectionsText(Tail(merged_sections))

RECURSIVE FooterLines(_)
\* one line for each provider report: the provider and the words of its
\* content
FooterLines(reports) ==
    IF reports = <<>> THEN <<>>
    ELSE <<"- **", Head(reports).provider, "**: ",
           NumToken(Len(Words(Head(reports).content))), " words", NL>>
         \o FooterLines(Tail(reports))

FallbackReportText(merged_sections, reports) ==
    <<"# Master Research Report", NL, NL, "## Executive Summary", NL, NL,
      "This report synthesizes research from multiple AI providers to provide comprehensive insights.",
      NL, NL>>
    \o SectionsText(merged_sections)
    \o <<NL, NL, "---", NL, NL, "## Report Metadata", NL, NL,
         "This master report was generated by merging research from the following providers:",
         NL, NL>>
    \o FooterLines(reports)
    \o <<NL, "Generated on: ", "<utcnow>", NL>>

\* C27: when the merge provider is unconfigured or the assembly call raises,
\* generate_master_report returns the fallback report without thinking: the
\* fixed header, the executive-summary stub, every merged section once in
\* the sorted order with its own heading level, its content and a sources
\* line, then the metadata footer with one line per provider report.
C27_FallbackReportWhenNoSynthesis ==
    (merge_pc = "done" /\ given_reports # <<>>
        /\ merge_provider \in {"unconfigured", "raises"}) =>
        /\ ~merge_out.raised
        /\ merge_out.master.thinking = PyNone
        /\ merge_out.master.content
              = FallbackReportText(merge_out.merged_sections, given_reports)

\* the assembly call raised on two reports that gave two merged sections of
\* different levels.
C27_Witness ==
    /\ merge_pc = "done"
    /\ merge_provider = "raises"
    /\ Len(given_reports) = 2
    /\ Len(merge_out.merged_sections) = 2
    /\ merge_out.merged_sections[1].level # merge_out.merged_sections[2].level
    /\ Contains(merge_out.master.content, <<"# Master Research Report">>)

\* C28: for every merged section, sources is exactly the set of providers
\* that contributed a section to its group, each provider listed once, also
\* when one provider's report holds two sections with the same key.
C28_SourcesAreTheContributors ==
    merge_pc = "done" /\ given_reports # <<>> =>
        \A k \in 1..Len(merge_out.merged_sections) :
            LET m == merge_out.merged_sections[k]
            IN  /\ \A i, j \in 1..Len(m.sources) :
                      m.sources[i] = m.sources[j] => i = j
                /\ \E g \in 1..Len(merge_out.grouped_sections) :
                     LET ss == merge_out.grouped_sections[g].sections
                     IN  /\ m.title = ss[1].title
                         /\ m.level = ss[1].level
                         /\ {m.sources[i] : i \in 1..Len(m.sources)}
                              = {ss[i].provider : i \in 1..Len(ss)}

\* C28 without "each provider listed once"
C28_SourcesSetIsTheContributors ==
    merge_pc = "done" /\ given_reports # <<>> =>
        \A k \in 1..Len(merge_out.merged_sections) :
            LET m == merge_out.merged_sections[k]
            IN  \E g \in 1..Len(merge_out.grouped_sections) :
                     LET ss == merge_out.grouped_sections[g].sections
                     IN  /\ m.title = ss[1].title
                         /\ m.level = ss[1].level
                         /\ {m.sources[i] : i \in 1..Len(m.sources)}
                              = {ss[i].provider : i \in 1..Len(ss)}

\* the records of the provider of task t
RecordsOf(t) == {i \in DOMAIN rows : rows[i].provider = providers[t]}

\* the record agrees with what the task reported to the fan-in: COMPLETED
\* for a task that returned COMPLETED, FAILED for one that returned FAILED or
\* raised
AgreesWithResult(i, t) ==
    /\ IsTerminal(rows[i].status)
    /\ rows[i].status = COMPLETED <=> ReturnedCompleted(t)

\* C29: whenever the orchestrator has written the session's terminal status,
\* the record of every provider task it launched is in a terminal status that
\* agrees with the result the task reported to the fan-in; no record of a
\* launched provider is still PENDING or IN_PROGRESS, also when a task raised.
C29_RecordsTerminalWhenSessionTerminal ==
    opc = "done" =>
        \A t \in Launched : \A i \in RecordsOf(t) : AgreesWithResult(i, t)

\* C29 for the tasks that returned a dict
C29_ForTasksThatReturned ==
    opc = "done" =>
        \A t \in Launched :
            task[t].result.kind = "dict" =>
                \A i \in RecordsOf(t) : AgreesWithResult(i, t)

\* the store holds what the terminal event e of task t announced
StoreMatchesEvent(t, e) ==
    \A i \in RecordsOf(t) :
        /\ e.status = "completed" =>
            /\ rows[i].status = COMPLETED
            /\ rows[i].content = task[t].report_content
        /\ e.status = "failed" =>
            /\ rows[i].status = FAILED
            /\ rows[i].error_message = e.error

\* C30: a completed event is emitted only after the provider's record has
\* been committed COMPLETED with its content, a failed event only after it
\* has been committed FAILED with the error text, and the status does not
\* change afterwards: from the emission on, the store holds the status the
\* event announced.
C30_TerminalEventMatchesStore ==
    \A t \in Launched :
        \A k \in DOMAIN task[t].events :
            task[t].events[k].status \in {"completed", "failed"} =>
                StoreMatchesEvent(t, task[t].events[k])

\* C30 at the emission alone: in the step that emits a terminal event the
\* record has the status, content and error text the event announces
C30_CommittedBeforeEmitted ==
    [][ \A t \in Launched :
          (t \in DOMAIN task' /\ Len(task'[t].events) > Len(task[t].events)
             /\ task'[t].events[Len(task'[t].events)].status
                    \in {"completed", "failed"}) =>
            LET e == task'[t].events[Len(task'[t].events)]
            IN  \A i \in RecordsOf(t) :
                  /\ e.status = "completed" =>
                      /\ rows'[i].status = COMPLETED
                      /\ rows'[i].content = task'[t].report_content
                  /\ e.status = "failed" =>
                      /\ rows'[i].status = FAILED
                      /\ rows'[i].error_message = e.error ]_vars

\* C30 for the tasks whose last notifier call returned: the task returned a
\* dict after a terminal event, and the store holds what its last event
\* announced
C30_AfterNotifierReturned ==
    \A t \in Launched :
        (task[t].pc = "done" /\ task[t].result.kind = "dict"
            /\ TerminalEvents(t) # {}) =>
            StoreMatchesEvent(t, task[t].events[Len(task[t].events)])

====
